---- MODULE Spec2Model ----
(***************************************************************************)
(* A model of the Fluence compute engine (fce):                            *)
(*   - FluenceFaaS (fluence-faas/src/faas.rs): the interface cache, the    *)
(*     JSON call entry point and the raw module API;                       *)
(*   - the WIT generator (crates/wit-generator): the ABI helper            *)
(*     descriptors and the adapter programs generate_wit emits;            *)
(*   - the adapter interpreter running a generated program against a      *)
(*     guest module's ABI.                                                 *)
(* Each part has its own specification over the shared variables.          *)
(***************************************************************************)
EXTENDS Integers, Sequences, FiniteSets, TLC

VARIABLES
    fce,                      \* FluenceFaaS.fce: module name -> loaded Wasm binary
    call_parameters,          \* FluenceFaaS.call_parameters
    module_interfaces_cache,  \* FluenceFaaS.module_interfaces_cache
    cache_origin,             \* history: cache key -> module the entry was derived from
    last,                     \* history: the last FluenceFaaS operation and its outcome
    unloaded,                 \* history: modules unloaded and not loaded again since
    interfaces,               \* wit-generator Interfaces {types, exports, adapters, implementations}
    functions,                \* history: the AstFunctionItems generate_wit was applied to
    run,                      \* one execution of a generated adapter by the interpreter
    vm                        \* one FCEModule / FrankModule: its ABI handles and linear memory

vars == <<fce, call_parameters, module_interfaces_cache, cache_origin, last, unloaded,
          interfaces, functions, run, vm>>

faasVars == <<fce, call_parameters, module_interfaces_cache, cache_origin, last, unloaded>>
witVars == <<interfaces, functions>>

(***************************************************************************)
(* Small helpers on sequences and partial maps.                            *)
(***************************************************************************)
Range(s) == {s[i] : i \in DOMAIN s}

EmptyMap == [k \in {} |-> 0]

MapPut(m, k, v) == [x \in (DOMAIN m) \cup {k} |-> IF x = k THEN v ELSE m[x]]

MapRemove(m, k) == [x \in (DOMAIN m) \ {k} |-> m[x]]

(***************************************************************************)
(* FluenceFaaS                                                             *)
(***************************************************************************)

\* Module names and function names are both plain strings: one name space.
Names == {"a", "b", "c"}

\* The names modules are registered under (a subset of the same strings).
ModuleNames == {"a", "b"}

\* The Wasm binaries the model loads, each with the interface it exports.
WasmBinaries == {"w1", "w2"}

Sig(args, outs) == [arguments |-> args, outputs |-> outs]

\* fce.module_interface(name).function_signatures of a binary: function name -> signature.
FunctionSignaturesOf(w) ==
    IF w = "w1"
    THEN [f \in {"a", "b"} |->
            IF f = "a" THEN Sig(<<"U8">>, <<"U8">>)
                       ELSE Sig(<<"String">>, <<"String">>)]
    ELSE [f \in {"a", "c"} |->
            IF f = "a" THEN Sig(<<"S32", "S32">>, <<"S32">>)
                       ELSE Sig(<<"ByteArray">>, <<"S32">>)]

\* fce.module_interface(name).record_types of a binary.
RecordTypesOf(w) == IF w = "w1" THEN "records_w1" ELSE "records_w2"

\* The ModuleInterface value lookup_module_interface builds from a binary's interface.
ModuleInterface(w) ==
    [function_signatures |-> FunctionSignaturesOf(w), record_types |-> RecordTypesOf(w)]

\* FCE::module_interface: None for a module that is not loaded.
module_interface(name) ==
    IF name \in DOMAIN fce THEN [some |-> TRUE, w |-> fce[name]]
                           ELSE [some |-> FALSE, w |-> "none"]

CallParameterValues == {"cp_default", "cp1"}

\* JSON arguments: a positional array of numbers, strings and byte arrays.
JNum(n) == [kind |-> "num", v |-> n]
JStr(n) == [kind |-> "str", v |-> n]
JArr(n) == [kind |-> "arr", v |-> n]

JsonArgs == {<<JNum(255)>>, <<JNum(257)>>, <<JStr(5)>>, <<JNum(2), JNum(3)>>, <<JArr(4)>>}

\* Whether one JSON value fits an interface type (strict coercion).
JsonFits(j, ty) ==
    CASE ty = "U8" -> j.kind = "num" /\ j.v >= 0 /\ j.v <= 255
      [] ty = "S32" -> j.kind = "num" /\ j.v >= -2147483647 - 1 /\ j.v <= 2147483647
      [] ty = "String" -> j.kind = "str"
      [] ty = "ByteArray" -> j.kind = "arr"
      [] OTHER -> FALSE

\* json_to_ivalues: the decoded argument types, or JsonSchemaMismatch.
json_to_ivalues(json_args, func_signature) ==
    IF /\ Len(json_args) = Len(func_signature)
       /\ \A i \in DOMAIN json_args : JsonFits(json_args[i], func_signature[i])
    THEN [ok |-> TRUE, iargs |-> func_signature]
    ELSE [ok |-> FALSE, iargs |-> <<>>]

\* FCE::call: resolves the module and the function in the registry and runs it.
fce_call(module_name, func_name, iargs) ==
    IF module_name \notin DOMAIN fce THEN [result |-> "NoSuchModule", values |-> <<>>]
    ELSE LET sigs == FunctionSignaturesOf(fce[module_name]) IN
         IF func_name \notin DOMAIN sigs THEN [result |-> "MissingFunction", values |-> <<>>]
         ELSE IF iargs # sigs[func_name].arguments
              THEN [result |-> "AdapterTypeMismatch", values |-> <<>>]
              ELSE [result |-> "Ok", values |-> sigs[func_name].outputs]

\* ivalues_to_json: encodes the result against output_types.
ivalues_to_json(values, output_types) ==
    IF values = output_types THEN "Ok" ELSE "JsonSchemaMismatch"

NoSig == Sig(<<>>, <<>>)

\* lookup_module_interface: the result and the cache it leaves.
\*   result: "Ok" | "MissingFunction" | "NoSuchModule"; sig, record_types when Ok;
\*   from_cache: whether the answer came from module_interfaces_cache.
lookup_module_interface(module_name, func_name) ==
    IF module_name \in DOMAIN module_interfaces_cache
    THEN LET mi == module_interfaces_cache[module_name] IN
         IF func_name \in DOMAIN mi.function_signatures
         THEN [result |-> "Ok", sig |-> mi.function_signatures[func_name],
               record_types |-> mi.record_types, from_cache |-> TRUE,
               cache |-> module_interfaces_cache, origin |-> cache_origin]
         ELSE [result |-> "MissingFunction", sig |-> NoSig, record_types |-> "none",
               from_cache |-> TRUE,
               cache |-> module_interfaces_cache, origin |-> cache_origin]
    ELSE LET found == module_interface(module_name) IN
         IF ~found.some
         THEN [result |-> "NoSuchModule", sig |-> NoSig, record_types |-> "none",
               from_cache |-> FALSE,
               cache |-> module_interfaces_cache, origin |-> cache_origin]
         ELSE LET mi == ModuleInterface(found.w) IN
              IF func_name \notin DOMAIN mi.function_signatures
              THEN [result |-> "MissingFunction", sig |-> NoSig, record_types |-> "none",
                    from_cache |-> FALSE,
                    cache |-> module_interfaces_cache, origin |-> cache_origin]
              ELSE [result |-> "Ok", sig |-> mi.function_signatures[func_name],
                    record_types |-> mi.record_types, from_cache |-> FALSE,
                    \* faas.rs:240-241 inserts under func_name
                    cache |-> MapPut(module_interfaces_cache, func_name, mi),
                    origin |-> MapPut(cache_origin, func_name, module_name)]

Last(op, m, f, lookup, from_cache, sig, called, result) ==
    [op |-> op, module |-> m, func |-> f, lookup |-> lookup, from_cache |-> from_cache,
     sig |-> sig, called |-> called, result |-> result]

NoLast == Last("none", "none", "none", "none", FALSE, NoSig, FALSE, "none")

call_with_json_ReplaceFirst(module_name, func_name, json_args, cp) ==
    LET lk == lookup_module_interface(module_name, func_name) IN
    /\ module_interfaces_cache' = lk.cache
    /\ cache_origin' = lk.origin
    /\ UNCHANGED <<fce, unloaded>>
    /\ call_parameters' = cp
    /\ IF lk.result # "Ok"
       THEN last' = Last("call_with_json", module_name, func_name, lk.result,
                         lk.from_cache, NoSig, FALSE, lk.result)
       ELSE LET dec == json_to_ivalues(json_args, lk.sig.arguments) IN
            IF ~dec.ok
            THEN last' = Last("call_with_json", module_name, func_name, "Ok",
                              lk.from_cache, lk.sig, FALSE, "JsonSchemaMismatch")
            ELSE LET res == fce_call(module_name, func_name, dec.iargs) IN
                 last' = Last("call_with_json", module_name, func_name, "Ok",
                              lk.from_cache, lk.sig, res.result = "Ok",
                              IF res.result # "Ok" THEN res.result
                              ELSE ivalues_to_json(res.values, lk.sig.outputs))

\* call_with_json(module_name, func_name, json_args, call_parameters)
call_with_json(module_name, func_name, json_args, cp) ==
    LET lk == lookup_module_interface(module_name, func_name) IN
    /\ module_interfaces_cache' = lk.cache
    /\ cache_origin' = lk.origin
    /\ UNCHANGED <<fce, unloaded>>
    /\ IF lk.result # "Ok"
       THEN /\ UNCHANGED call_parameters
            /\ last' = Last("call_with_json", module_name, func_name, lk.result,
                            lk.from_cache, NoSig, FALSE, lk.result)
       ELSE LET dec == json_to_ivalues(json_args, lk.sig.arguments) IN
            IF ~dec.ok
            THEN /\ UNCHANGED call_parameters
                 /\ last' = Last("call_with_json", module_name, func_name, "Ok",
                                 lk.from_cache, lk.sig, FALSE, "JsonSchemaMismatch")
            ELSE LET res == fce_call(module_name, func_name, dec.iargs) IN
                 /\ call_parameters' = cp
                 /\ last' = Last("call_with_json", module_name, func_name, "Ok",
                                 lk.from_cache, lk.sig, res.result = "Ok",
                                 IF res.result # "Ok" THEN res.result
                                 ELSE ivalues_to_json(res.values, lk.sig.outputs))

CallWithJson ==
    \E m \in Names, f \in Names, j \in JsonArgs, cp \in CallParameterValues :
        call_with_json(m, f, j, cp)

\* load_module (raw-module-api): FCE::load_module; names are unique in the registry.
load_module(name, w) ==
    /\ IF name \in DOMAIN fce
       THEN /\ UNCHANGED <<fce, unloaded>>
            /\ last' = Last("load_module", name, "none", "none", FALSE, NoSig, FALSE,
                            "NonUniqueModuleName")
       ELSE /\ fce' = MapPut(fce, name, w)
            /\ unloaded' = unloaded \ {name}
            /\ last' = Last("load_module", name, "none", "none", FALSE, NoSig, FALSE, "Ok")
    /\ UNCHANGED <<call_parameters, module_interfaces_cache, cache_origin>>

LoadModule == \E name \in ModuleNames, w \in WasmBinaries : load_module(name, w)

\* unload_module (raw-module-api): FCE::unload_module and nothing else.
unload_module(module_name) ==
    /\ IF module_name \notin DOMAIN fce
       THEN /\ UNCHANGED <<fce, unloaded>>
            /\ last' = Last("unload_module", module_name, "none", "none", FALSE, NoSig,
                            FALSE, "NoSuchModule")
       ELSE /\ fce' = MapRemove(fce, module_name)
            /\ unloaded' = unloaded \cup {module_name}
            /\ last' = Last("unload_module", module_name, "none", "none", FALSE, NoSig,
                            FALSE, "Ok")
    /\ UNCHANGED <<call_parameters, module_interfaces_cache, cache_origin>>

UnloadModule == \E m \in Names : unload_module(m)

\* with_modules: every configured module loaded, default call parameters, empty cache.
Registries == UNION {[S -> WasmBinaries] : S \in SUBSET ModuleNames}

FaaSInit ==
    /\ fce \in Registries
    /\ call_parameters = "cp_default"
    /\ module_interfaces_cache = EmptyMap
    /\ cache_origin = EmptyMap
    /\ last = NoLast
    /\ unloaded = {}

FaaSIdle ==
    /\ fce = EmptyMap
    /\ call_parameters = "cp_default"
    /\ module_interfaces_cache = EmptyMap
    /\ cache_origin = EmptyMap
    /\ last = NoLast
    /\ unloaded = {}

(***************************************************************************)
(* WIT generator: the ABI helper descriptors                               *)
(***************************************************************************)

IFunctionArg(name, ty) == [name |-> name, ty |-> ty]

ALLOCATE_FUNC ==
    [name |-> "allocate", id |-> 0,
     arguments |-> <<IFunctionArg("size", "I32")>>,
     output_types |-> <<"I32">>]

DEALLOCATE_FUNC ==
    [name |-> "deallocate", id |-> 1,
     arguments |-> <<IFunctionArg("pointer", "I32"), IFunctionArg("size", "I32")>>,
     output_types |-> <<>>]

GET_RESULT_SIZE_FUNC ==
    [name |-> "get_result_size", id |-> 2,
     arguments |-> <<>>,
     output_types |-> <<"I32">>]

GET_RESULT_PTR_FUNC_IdOfSize ==
    [name |-> "get_result_ptr", id |-> 2,
     arguments |-> <<>>,
     output_types |-> <<"I32">>]

GET_RESULT_PTR_FUNC ==
    [name |-> "get_result_ptr", id |-> 3,
     arguments |-> <<>>,
     output_types |-> <<"I32">>]

SET_RESULT_SIZE_FUNC ==
    [name |-> "set_result_size", id |-> 4,
     arguments |-> <<IFunctionArg("result_size", "I32")>>,
     output_types |-> <<>>]

SET_RESULT_PTR_FUNC ==
    [name |-> "set_result_ptr", id |-> 5,
     arguments |-> <<IFunctionArg("result_ptr", "I32")>>,
     output_types |-> <<>>]

\* The six descriptors, in declaration order.
ApiExportFuncDescriptors ==
    <<ALLOCATE_FUNC, DEALLOCATE_FUNC, GET_RESULT_SIZE_FUNC, GET_RESULT_PTR_FUNC,
      SET_RESULT_SIZE_FUNC, SET_RESULT_PTR_FUNC>>

(***************************************************************************)
(* WIT generator: adapter instructions                                     *)
(***************************************************************************)

\* ParsedType variants the generator implements (any other is unimplemented!()).
ParsedTypes == {"I8", "I16", "I32", "I64", "U8", "U16", "U32", "U64", "F32", "F64",
                "Utf8String", "ByteVector"}

ArgumentGet(index) == [op |-> "ArgumentGet", index |-> index]
CallCore(function_index) == [op |-> "CallCore", function_index |-> function_index]
Instruction(op) == [op |-> op]

\* utils::ptype_to_itype
ptype_to_itype(pty) ==
    CASE pty = "I8" -> "S8"
      [] pty = "I16" -> "S16"
      [] pty = "I32" -> "I32"
      [] pty = "I64" -> "I64"
      [] pty = "U8" -> "U8"
      [] pty = "U16" -> "U16"
      [] pty = "U32" -> "U32"
      [] pty = "U64" -> "U64"
      [] pty = "F32" -> "F32"
      [] pty = "F64" -> "F64"
      [] pty = "Utf8String" -> "String"
      [] pty = "ByteVector" -> "ByteArray"

StringLikeTypes == {"Utf8String", "ByteVector"}

\* generate_instructions_for_input_type, the integer and float arms.
PrimitiveInput(pty, index) ==
    CASE pty = "I8" -> <<ArgumentGet(index), Instruction("I32FromS8")>>
      [] pty = "I16" -> <<ArgumentGet(index), Instruction("I32FromS16")>>
      [] pty = "I32" -> <<ArgumentGet(index)>>
      [] pty = "I64" -> <<ArgumentGet(index)>>
      [] pty = "U8" -> <<ArgumentGet(index), Instruction("I32FromU8")>>
      [] pty = "U16" -> <<ArgumentGet(index), Instruction("I32FromU16")>>
      [] pty = "U32" -> <<ArgumentGet(index), Instruction("I32FromU32")>>
      [] pty = "U64" -> <<ArgumentGet(index), Instruction("I64FromU64")>>
      [] pty = "F32" -> <<ArgumentGet(index)>>
      [] pty = "F64" -> <<ArgumentGet(index)>>

StringInput_LowerBeforeAllocate(pty, index) ==
    IF pty = "Utf8String"
    THEN <<ArgumentGet(index), Instruction("StringSize"), ArgumentGet(index),
           Instruction("StringLowerMemory"), CallCore(ALLOCATE_FUNC.id)>>
    ELSE <<ArgumentGet(index), Instruction("ByteArraySize"), ArgumentGet(index),
           Instruction("ByteArrayLowerMemory"), CallCore(ALLOCATE_FUNC.id)>>

\* generate_instructions_for_input_type, the Utf8String and ByteVector arms.
StringInput(pty, index) ==
    IF pty = "Utf8String"
    THEN <<ArgumentGet(index), Instruction("StringSize"), CallCore(ALLOCATE_FUNC.id),
           ArgumentGet(index), Instruction("StringLowerMemory")>>
    ELSE <<ArgumentGet(index), Instruction("ByteArraySize"), CallCore(ALLOCATE_FUNC.id),
           ArgumentGet(index), Instruction("ByteArrayLowerMemory")>>

generate_instructions_for_input_type_IndexDropped(pty, index) ==
    IF pty \in StringLikeTypes THEN StringInput(pty, 0) ELSE PrimitiveInput(pty, 0)

\* ParsedType::generate_instructions_for_input_type(index)
generate_instructions_for_input_type(pty, index) ==
    IF pty \in StringLikeTypes THEN StringInput(pty, index) ELSE PrimitiveInput(pty, index)

\* generate_instructions_for_output_type, the integer and float arms.
PrimitiveOutput(pty) ==
    CASE pty = "I8" -> <<Instruction("S8FromI32")>>
      [] pty = "I16" -> <<Instruction("S16FromI32")>>
      [] pty = "I32" -> <<>>
      [] pty = "I64" -> <<>>
      [] pty = "U8" -> <<Instruction("U8FromI32")>>
      [] pty = "U16" -> <<Instruction("U16FromI32")>>
      [] pty = "U32" -> <<Instruction("U32FromI32")>>
      [] pty = "U64" -> <<Instruction("U64FromI64")>>
      [] pty = "F32" -> <<>>
      [] pty = "F64" -> <<>>

StringOutput_DeallocateBeforeLift(pty) ==
    <<CallCore(GET_RESULT_PTR_FUNC.id), CallCore(GET_RESULT_SIZE_FUNC.id),
      CallCore(DEALLOCATE_FUNC.id),
      CallCore(GET_RESULT_PTR_FUNC.id), CallCore(GET_RESULT_SIZE_FUNC.id),
      Instruction(IF pty = "Utf8String" THEN "StringLiftMemory" ELSE "ByteArrayLiftMemory")>>

\* generate_instructions_for_output_type, the Utf8String and ByteVector arms.
StringOutput(pty) ==
    <<CallCore(GET_RESULT_PTR_FUNC.id), CallCore(GET_RESULT_SIZE_FUNC.id),
      Instruction(IF pty = "Utf8String" THEN "StringLiftMemory" ELSE "ByteArrayLiftMemory"),
      CallCore(GET_RESULT_PTR_FUNC.id), CallCore(GET_RESULT_SIZE_FUNC.id),
      CallCore(DEALLOCATE_FUNC.id)>>

\* ParsedType::generate_instructions_for_output_type()
generate_instructions_for_output_type(pty) ==
    IF pty \in StringLikeTypes THEN StringOutput(pty) ELSE PrimitiveOutput(pty)

\* Iterator::flatten over the per-argument instruction vectors.
RECURSIVE Flatten(_)
Flatten(ss) == IF ss = <<>> THEN <<>> ELSE Head(ss) \o Flatten(Tail(ss))

\* The prologue part of generate_wit (fn_instructions.rs:60-67).
input_instructions(input_types) ==
    Flatten([k \in 1..Len(input_types) |->
                generate_instructions_for_input_type(input_types[k], k - 1)])

\* The epilogue part of generate_wit (fn_instructions.rs:74-77); output_type is an Option.
output_instructions(output_type) ==
    IF output_type = <<>> THEN <<>>
    ELSE generate_instructions_for_output_type(output_type[1])

TypeFunction(inputs, outputs) == [inputs |-> inputs, outputs |-> outputs]

adapter_index_SameAsExport(types) == Len(types) - 1

\* let adapter_idx = (interfaces.types.len() - 2) as u32
adapter_index(types) == Len(types) - 2

\* let export_idx = (interfaces.types.len() - 1) as u32
export_type_index(types) == Len(types) - 1

\* AstFunctionItem::generate_wit(&self, interfaces): the Interfaces it leaves.
generate_wit(item, ifs) ==
    LET inputs == [k \in 1..Len(item.input_types) |-> ptype_to_itype(item.input_types[k])]
        outputs == [k \in 1..Len(item.output_type) |-> ptype_to_itype(item.output_type[k])]
        types == Append(Append(ifs.types, TypeFunction(inputs, outputs)),
                        TypeFunction(inputs, outputs))
        adapter_idx == adapter_index(types)
        export_idx == export_type_index(types)
        exports == Append(ifs.exports, [name |-> item.name, function_type |-> export_idx])
        export_function_index == Len(exports) - 1
        instructions == input_instructions(item.input_types)
                        \o <<CallCore(export_function_index)>>
                        \o output_instructions(item.output_type)
    IN [types |-> types,
        exports |-> exports,
        adapters |-> Append(ifs.adapters,
                            [function_type |-> adapter_idx, instructions |-> instructions]),
        implementations |-> Append(ifs.implementations,
                                   [core_function_type |-> export_idx,
                                    adapter_function_type |-> adapter_idx])]

\* Interfaces::default()
EmptyInterfaces == [types |-> <<>>, exports |-> <<>>, adapters |-> <<>>,
                    implementations |-> <<>>]

MaxArgs == 2
MaxFunctions == 7
MaxRichFunctions == 1

FnNames == {"f", "g"}

SeqsUpTo(S, n) == UNION {[1..k -> S] : k \in 0..n}

AstFunctionItem(name, input_types, output_type) ==
    [name |-> name, input_types |-> input_types, output_type |-> output_type]

\* Every signature over the implemented types with at most MaxArgs arguments.
FunctionItems ==
    {AstFunctionItem(n, ins, out) :
        n \in FnNames, ins \in SeqsUpTo(ParsedTypes, MaxArgs), out \in SeqsUpTo(ParsedTypes, 1)}

\* The plain items: no arguments, no output.
PlainItems == {AstFunctionItem("f", <<>>, <<>>)}

RichCount(fs) == Cardinality({k \in DOMAIN fs : fs[k] \notin PlainItems})

\* One application of generate_wit to the module's Interfaces.
GenerateWit ==
    /\ Len(functions) < MaxFunctions
    /\ \E item \in (IF RichCount(functions) < MaxRichFunctions THEN FunctionItems
                                                              ELSE PlainItems) :
        /\ interfaces' = generate_wit(item, interfaces)
        /\ functions' = Append(functions, item)

WitInit ==
    /\ interfaces = EmptyInterfaces
    /\ functions = <<>>

(***************************************************************************)
(* Adapter interpreter: one run of a generated adapter against a guest     *)
(***************************************************************************)

NoRun == [active |-> FALSE]

\* Bit widths. TLC's integers are 32-bit, so the 32- and 64-bit types are scaled
\* down, keeping 8 < 16 < W32 < W64 and unsigned maxima above the signed ones.
W8 == 8
W16 == 16
W32 == 20
W64 == 24

RECURSIVE Pow2(_)
Pow2(n) == IF n = 0 THEN 1 ELSE 2 * Pow2(n - 1)

BitsOf(ty) ==
    CASE ty \in {"S8", "U8"} -> W8
      [] ty \in {"S16", "U16"} -> W16
      [] ty \in {"I32", "U32"} -> W32
      [] ty \in {"I64", "U64"} -> W64

SignedTypes == {"S8", "S16", "I32", "I64"}
IntegerTypes == {"S8", "S16", "I32", "I64", "U8", "U16", "U32", "U64"}

MinOf(ty) == IF ty \in SignedTypes THEN 0 - Pow2(BitsOf(ty) - 1) ELSE 0
MaxOf(ty) == IF ty \in SignedTypes THEN Pow2(BitsOf(ty) - 1) - 1 ELSE Pow2(BitsOf(ty)) - 1

\* A value on the adapter stack: its dynamic type and its number (for a string or
\* a byte array, its byte length).
Val(ty, v) == [ty |-> ty, v |-> v]

MaxStrLen == 2
MaxPrev == 6
MemorySize == 64
HeapBase == 8

\* Well-typed sample arguments of a ParsedType.
ArgValues(pty) ==
    IF pty \in {"Utf8String", "ByteVector"}
    THEN {Val(ptype_to_itype(pty), n) : n \in 0..MaxStrLen}
    ELSE {Val(ptype_to_itype(pty), 1)}

AllArgValues == UNION {ArgValues(pty) : pty \in ParsedTypes}

ArgTuples(input_types) ==
    {a \in [1..Len(input_types) -> AllArgValues] :
        \A k \in 1..Len(input_types) : a[k] \in ArgValues(input_types[k])}

\* The core (Wasm) parameters an export takes for one argument of a ParsedType:
\* a string or byte array travels as (ptr, byte_len).
CoreInputsOf(pty) ==
    CASE pty \in {"I8", "I16", "I32", "U8", "U16", "U32"} -> <<"I32">>
      [] pty \in {"I64", "U64"} -> <<"I64">>
      [] pty = "F32" -> <<"F32">>
      [] pty = "F64" -> <<"F64">>
      [] pty \in {"Utf8String", "ByteVector"} -> <<"I32", "I32">>

\* The core results of an export: a string or byte array comes back through
\* set_result_ptr / set_result_size, not as a core value.
CoreOutputsOf(pty) ==
    IF pty \in {"Utf8String", "ByteVector"} THEN <<>> ELSE CoreInputsOf(pty)

CoreParams(input_types) == Flatten([k \in 1..Len(input_types) |-> CoreInputsOf(input_types[k])])

\* Numeric conversion opcodes: the type popped and the type pushed.
Conversions ==
    [I32FromS8 |-> <<"S8", "I32">>, I32FromS16 |-> <<"S16", "I32">>,
     I32FromU8 |-> <<"U8", "I32">>, I32FromU16 |-> <<"U16", "I32">>,
     I32FromU32 |-> <<"U32", "I32">>, I64FromU64 |-> <<"U64", "I64">>,
     S8FromI32 |-> <<"I32", "S8">>, S16FromI32 |-> <<"I32", "S16">>,
     U8FromI32 |-> <<"I32", "U8">>, U16FromI32 |-> <<"I32", "U16">>,
     U32FromI32 |-> <<"I32", "U32">>, U64FromI64 |-> <<"I64", "U64">>]

Event(op, pc, a, b, ret) == [op |-> op, pc |-> pc, a |-> a, b |-> b, ret |-> ret]

Top(st, k) == st[Len(st) - k]
Drop(st, n) == SubSeq(st, 1, Len(st) - n)

Failed(r, kind) == [r EXCEPT !.error = kind]

\* The next instruction done: the new stack and the event it logged (if any).
Done(r, stack, events) ==
    [r EXCEPT !.pc = @ + 1, !.stack = stack, !.trace = @ \o events]

InBounds(ptr, len) == ptr >= 0 /\ len >= 0 /\ ptr + len <= MemorySize

\* The types of the top n stack values, deepest first.
TopTypes(st, n) == [k \in 1..n |-> st[Len(st) - n + k].ty]

\* CallCore on an ABI helper, driven by its descriptor.
CallHelper(r, d) ==
    LET n == Len(d.arguments)
        want == [k \in 1..n |-> d.arguments[k].ty]
        st == r.stack
    IN IF Len(st) < n THEN Failed(r, "AdapterStackUnderflow")
       ELSE IF TopTypes(st, n) # want THEN Failed(r, "AdapterTypeMismatch")
       ELSE LET rest == Drop(st, n)
                a1 == IF n >= 1 THEN st[Len(st) - n + 1].v ELSE -1
                a2 == IF n >= 2 THEN st[Len(st) - n + 2].v ELSE -1
            IN CASE d.name = "allocate" ->
                      [Done(r, Append(rest, Val("I32", r.heap_next)),
                            <<Event("allocate", r.pc, a1, -1, r.heap_next)>>)
                         EXCEPT !.heap_next = @ + a1]
                 [] d.name = "deallocate" ->
                      Done(r, rest, <<Event("deallocate", r.pc, a1, a2, -1)>>)
                 [] d.name = "get_result_ptr" ->
                      Done(r, Append(rest, Val("I32", r.result_ptr)),
                           <<Event("get_result_ptr", r.pc, -1, -1, r.result_ptr)>>)
                 [] d.name = "get_result_size" ->
                      Done(r, Append(rest, Val("I32", r.result_size)),
                           <<Event("get_result_size", r.pc, -1, -1, r.result_size)>>)
                 [] d.name = "set_result_ptr" ->
                      [Done(r, rest, <<Event("set_result_ptr", r.pc, a1, -1, -1)>>)
                         EXCEPT !.result_ptr = a1]
                 [] d.name = "set_result_size" ->
                      [Done(r, rest, <<Event("set_result_size", r.pc, a1, -1, -1)>>)
                         EXCEPT !.result_size = a1]

\* CallCore on the function's own export; out_len is the byte length of the string
\* or byte array the guest returns (when its output is one). A guest that is an
\* identity export returns its last core argument, any other guest returns 1.
CallExport(r, out_len) ==
    LET want == CoreParams(r.item.input_types)
        n == Len(want)
        st == r.stack
    IN IF Len(st) < n THEN Failed(r, "AdapterStackUnderflow")
       ELSE IF TopTypes(st, n) # want THEN Failed(r, "AdapterTypeMismatch")
       ELSE LET rest == Drop(st, n)
                out == r.item.output_type
            IN IF out = <<>> THEN Done(r, rest, <<Event("export", r.pc, n, -1, -1)>>)
               ELSE IF out[1] \in {"Utf8String", "ByteVector"}
               THEN [Done(r, rest, <<Event("export", r.pc, n, -1, -1)>>)
                       EXCEPT !.result_ptr = r.heap_next, !.result_size = out_len,
                              !.heap_next = @ + out_len]
               ELSE Done(r, Append(rest, Val(CoreOutputsOf(out[1])[1],
                                             IF r.guest = "identity" THEN Top(st, 0).v ELSE 1)),
                         <<Event("export", r.pc, n, -1, -1)>>)

HelperIds == {ApiExportFuncDescriptors[k].id : k \in DOMAIN ApiExportFuncDescriptors}

HelperById(id) ==
    ApiExportFuncDescriptors[
        CHOOSE k \in DOMAIN ApiExportFuncDescriptors : ApiExportFuncDescriptors[k].id = id]

\* CallCore(function_index): an index that is a helper's descriptor ID denotes that
\* helper; any other index denotes an export.
ExecCallCore(r, function_index, out_len) ==
    IF function_index \in HelperIds THEN CallHelper(r, HelperById(function_index))
    ELSE IF function_index = r.export_index THEN CallExport(r, out_len)
    ELSE Failed(r, "NoSuchCoreFunction")

\* A numeric conversion: pops one value, pushes the converted one.
ExecConversion(r, op) ==
    LET from == Conversions[op][1]
        to == Conversions[op][2]
        st == r.stack
    IN IF Len(st) < 1 THEN Failed(r, "AdapterStackUnderflow")
       ELSE IF Top(st, 0).ty # from THEN Failed(r, "AdapterTypeMismatch")
       ELSE IF Top(st, 0).v < MinOf(to) \/ Top(st, 0).v > MaxOf(to)
            THEN Failed(r, "NumericRangeExceeded")
       ELSE Done(r, Append(Drop(st, 1), Val(to, Top(st, 0).v)), <<>>)

\* StringSize / ByteArraySize: pushes the byte length; the value stays beneath.
ExecSize(r, ty) ==
    LET st == r.stack
    IN IF Len(st) < 1 THEN Failed(r, "AdapterStackUnderflow")
       ELSE IF Top(st, 0).ty # ty THEN Failed(r, "AdapterTypeMismatch")
       ELSE Done(r, Append(st, Val("I32", Top(st, 0).v)), <<>>)

\* StringLowerMemory / ByteArrayLowerMemory: (value, ptr) on top; copies the bytes
\* to ptr and leaves (ptr, byte_len).
ExecLower(r, ty) ==
    LET st == r.stack
    IN IF Len(st) < 2 THEN Failed(r, "AdapterStackUnderflow")
       ELSE IF Top(st, 0).ty # ty \/ Top(st, 1).ty # "I32"
            THEN Failed(r, "AdapterTypeMismatch")
       ELSE IF ~InBounds(Top(st, 1).v, Top(st, 0).v)
            THEN Failed(r, "MemoryAccessOutOfBounds")
       ELSE Done(r, Drop(st, 2) \o <<Val("I32", Top(st, 1).v), Val("I32", Top(st, 0).v)>>,
                 <<Event("lower", r.pc, Top(st, 1).v, Top(st, 0).v, -1)>>)

\* StringLiftMemory / ByteArrayLiftMemory: (ptr, size) on top; pushes the value read.
ExecLift(r, ty, utf8_ok) ==
    LET st == r.stack
    IN IF Len(st) < 2 THEN Failed(r, "AdapterStackUnderflow")
       ELSE IF Top(st, 0).ty # "I32" \/ Top(st, 1).ty # "I32"
            THEN Failed(r, "AdapterTypeMismatch")
       ELSE IF ~InBounds(Top(st, 1).v, Top(st, 0).v)
            THEN Failed(r, "MemoryAccessOutOfBounds")
       ELSE IF ty = "String" /\ ~utf8_ok THEN Failed(r, "InvalidUtf8")
       ELSE Done(r, Append(Drop(st, 2), Val(ty, Top(st, 0).v)),
                 <<Event("lift", r.pc, Top(st, 1).v, Top(st, 0).v, -1)>>)

\* One instruction of the program.
Exec(r, out_len, utf8_ok) ==
    LET ins == r.program[r.pc]
    IN CASE ins.op = "ArgumentGet" ->
              IF ins.index >= Len(r.args) THEN Failed(r, "InvalidArgumentIndex")
              ELSE Done(r, Append(r.stack, r.args[ins.index + 1]), <<>>)
         [] ins.op = "CallCore" -> ExecCallCore(r, ins.function_index, out_len)
         [] ins.op = "StringSize" -> ExecSize(r, "String")
         [] ins.op = "ByteArraySize" -> ExecSize(r, "ByteArray")
         [] ins.op = "StringLowerMemory" -> ExecLower(r, "String")
         [] ins.op = "ByteArrayLowerMemory" -> ExecLower(r, "ByteArray")
         [] ins.op = "StringLiftMemory" -> ExecLift(r, "String", utf8_ok)
         [] ins.op = "ByteArrayLiftMemory" -> ExecLift(r, "ByteArray", utf8_ok)
         [] ins.op \in DOMAIN Conversions -> ExecConversion(r, ins.op)

Running(r) == r.active /\ r.error = "none" /\ r.pc <= Len(r.program)
Finished(r) == r.active /\ r.error = "none" /\ r.pc = Len(r.program) + 1

Step ==
    /\ Running(run)
    /\ \E out_len \in 0..MaxStrLen, utf8_ok \in BOOLEAN : run' = Exec(run, out_len, utf8_ok)
    /\ UNCHANGED <<interfaces, functions>>

RECURSIVE GenerateAll(_, _)
GenerateAll(items, ifs) ==
    IF items = <<>> THEN ifs ELSE GenerateAll(Tail(items), generate_wit(Head(items), ifs))

\* The run of the adapter generate_wit emitted last.
NewRun(item, ifs, args) ==
    [active |-> TRUE, item |-> item, export_index |-> Len(ifs.exports) - 1,
     program |-> ifs.adapters[Len(ifs.adapters)].instructions,
     args |-> args, pc |-> 1, stack |-> <<>>, trace |-> <<>>,
     heap_next |-> HeapBase, result_ptr |-> 0, result_size |-> 0, error |-> "none",
     guest |-> "const"]

\* The run of an adapter whose export returns its argument.
NewIdentityRun(item, ifs, args) == [NewRun(item, ifs, args) EXCEPT !.guest = "identity"]

RunItems == {it \in FunctionItems : it.name = "f"}

(***************************************************************************)
(* FCEModule / FrankModule: construction, linear memory and the module API *)
(***************************************************************************)

NoVm == [state |-> "none"]

\* The two module implementations (src/vm/module/fce_module.rs, frank_module.rs).
Impls == {"FCEModule", "FrankModule"}

\* config.allocate_fn_name, deallocate_fn_name, invoke_fn_name, store_fn_name,
\* load_fn_name, in the order the constructor resolves them.
AbiFnNames == <<"allocate", "deallocate", "invoke", "store", "load">>

\* What the Wasm instance holds under one of these names.
ExportKinds == {"ok", "absent", "wrong_signature"}

MaxBadExports == 2

\* The export tables of the Wasm binaries the model instantiates.
WasmExports ==
    {e \in [Range(AbiFnNames) -> ExportKinds] :
        Cardinality({n \in Range(AbiFnNames) : e[n] # "ok"}) <= MaxBadExports}

\* instance.exports.get::<Func<Args, Rets>>(name): Ok only for an export of that
\* name and that signature.
exports_get(exports, name) == exports[name] = "ok"

\* The first name, in resolution order, whose exports.get fails.
FirstFailing(exports) ==
    AbiFnNames[CHOOSE i \in DOMAIN AbiFnNames :
                  /\ ~exports_get(exports, AbiFnNames[i])
                  /\ \A j \in 1..(i - 1) : exports_get(exports, AbiFnNames[j])]

create_abi_LoadUnchecked(exports) ==
    IF \A i \in 1..4 : exports_get(exports, AbiFnNames[i])
    THEN [ok |-> TRUE, abi |-> {n \in Range(AbiFnNames) : exports_get(exports, n)},
          error |-> "none", name |-> "none"]
    ELSE [ok |-> FALSE, abi |-> {}, error |-> "MissingAbiExport",
          name |-> FirstFailing(exports)]

\* FCEModule::create_abi: every get is followed by `?`.
create_abi(exports) ==
    IF \A i \in DOMAIN AbiFnNames : exports_get(exports, AbiFnNames[i])
    THEN [ok |-> TRUE, abi |-> {n \in Range(AbiFnNames) : exports_get(exports, n)},
          error |-> "none", name |-> "none"]
    ELSE [ok |-> FALSE, abi |-> {}, error |-> "MissingAbiExport",
          name |-> FirstFailing(exports)]

\* FrankModule::new: the struct literal Some(instance.exports.get(..)?) per field.
frank_handles(exports) ==
    IF \A i \in DOMAIN AbiFnNames : exports_get(exports, AbiFnNames[i])
    THEN [ok |-> TRUE, abi |-> {n \in Range(AbiFnNames) : exports_get(exports, n)},
          error |-> "none", name |-> "none"]
    ELSE [ok |-> FALSE, abi |-> {}, error |-> "MissingAbiExport",
          name |-> FirstFailing(exports)]

\* Linear memory: a sequence of bytes; the byte at address a is memory[a + 1].
MemBytes == 10

ZeroMemory == [i \in 1..MemBytes |-> 0]

\* A memory with a length prefix of 1 at address 0 and a byte that is no UTF-8 at the end.
MarkedMemory == [i \in 1..MemBytes |-> IF i = 1 THEN 1 ELSE IF i = MemBytes THEN 255 ELSE 0]

MemoryImages == {ZeroMemory, MarkedMemory}

\* One step of an operation: an ABI call or a memory access, with its operands.
Call(fn, a, b, ret, ok) == [fn |-> fn, a |-> a, b |-> b, ret |-> ret, ok |-> ok]

\* The outcome of one operation on the module.
OpResult(op, outcome, error, steps, argument, result, mem_before, printed, hashed) ==
    [op |-> op, outcome |-> outcome, error |-> error, steps |-> steps,
     argument |-> argument, result |-> result, mem_before |-> mem_before,
     printed |-> printed, hashed |-> hashed]

\* What an operation printed: nothing, the string read from memory, or a fixed message.
Printed(kind, bytes) == [kind |-> kind, bytes |-> bytes]

NoPrint == Printed("none", <<>>)

NoOp == OpResult("none", "none", "none", <<>>, <<>>, <<>>, <<>>, NoPrint, <<>>)

\* FCEModule::new / FrankModule::new on an instantiated binary.
new(impl, exports, memory) ==
    LET h == IF impl = "FCEModule" THEN create_abi(exports) ELSE frank_handles(exports)
    IN [state |-> IF h.ok THEN "loaded" ELSE "failed",
        impl |-> impl, exports |-> exports, abi |-> h.abi,
        error |-> h.error, error_name |-> h.name,
        memory |-> memory, ops |-> 0, last |-> NoOp]

\* A binary compiled and instantiated, the constructor not yet returned.
Instantiated(impl, exports, memory) ==
    [state |-> "new", impl |-> impl, exports |-> exports, abi |-> {},
     error |-> "none", error_name |-> "none",
     memory |-> memory, ops |-> 0, last |-> NoOp]

ModuleNew ==
    /\ vm.state = "new"
    /\ vm' = new(vm.impl, vm.exports, vm.memory)

\* memory.view::<u8>()[address..(address + value.len())] and the copy loop: slicing
\* past the end of the view panics before any byte is written.
write_to_mem(memory, address, value) ==
    IF address < 0 \/ address + Len(value) > Len(memory)
    THEN [outcome |-> "Panic", memory |-> memory]
    ELSE [outcome |-> "Ok",
          memory |-> [i \in 1..Len(memory) |->
                        IF i - 1 >= address /\ i - 1 < address + Len(value)
                        THEN value[i - address] ELSE memory[i]]]

ReadU32LE_BigEndian(b) ==
    IF b[1] >= 128 THEN 2147483647
    ELSE b[4] + 256 * b[3] + 65536 * b[2] + 16777216 * b[1]

\* result_size |= (cell.get() as usize) << (8 * byte_id), byte_id = 0..3. The host's
\* usize is wider than the model's integers: a length from 2^31 on, which is beyond
\* any memory modelled here, is represented by 2^31 - 1.
ReadU32LE(b) ==
    IF b[4] >= 128 THEN 2147483647
    ELSE b[1] + 256 * b[2] + 65536 * b[3] + 16777216 * b[4]

\* read_result_from_mem: the length prefix, then the bytes after it; both slices
\* panic when they reach past the end of the view.
read_result_from_mem(memory, address) ==
    IF address < 0 \/ address + 4 > Len(memory)
    THEN [outcome |-> "Panic", result |-> <<>>, result_size |-> -1]
    ELSE LET result_size == ReadU32LE(SubSeq(memory, address + 1, address + 4))
         IN IF result_size > Len(memory) - address - 4
            THEN [outcome |-> "Panic", result |-> <<>>, result_size |-> result_size]
            ELSE [outcome |-> "Ok",
                  result |-> SubSeq(memory, address + 5, address + 4 + result_size),
                  result_size |-> result_size]

\* What the guest does in one ModuleAPI::invoke: whether its allocate, invoke and
\* deallocate exports trap, the addresses they return, and the bytes invoke leaves
\* at the address it returns.
ArgumentBytes == {<<>>, <<7>>, <<7, 9>>}

AllocAddresses == {-1, 4, MemBytes - 1}

ResultAddresses == {-1, 0, MemBytes - 6, MemBytes - 4, MemBytes - 3}

\* Length-prefixed results: well formed, or with a prefix that reaches past the end.
Payloads ==
    {<<>>, <<0, 0, 0, 0>>, <<1, 0, 0, 0, 7>>, <<2, 0, 0, 0, 7, 255>>, <<9, 0, 0, 0>>,
     <<0, 1, 0, 0>>, <<0, 0, 0, 255>>}

GuestBehaviours ==
    [alloc_trap : BOOLEAN, alloc_address : AllocAddresses,
     invoke_trap : BOOLEAN, result_address : ResultAddresses, payload : Payloads,
     dealloc_trap : BOOLEAN]

\* The guest's invoke export storing its result: a store outside memory traps inside
\* the guest and leaves nothing.
GuestWrite(memory, address, payload) ==
    IF address < 0 \/ address + Len(payload) > Len(memory) THEN memory
    ELSE [i \in 1..Len(memory) |->
            IF i - 1 >= address /\ i - 1 < address + Len(payload)
            THEN payload[i - address] ELSE memory[i]]

needs_allocate_Always(argument_len) == TRUE

\* if argument_len != 0 { allocate; write_to_mem } else { 0 }
needs_allocate(argument_len) == argument_len # 0

\* What ModuleAPI::invoke leaves: outcome, steps made, memory and result.
InvokeEnd(outcome, error, steps, memory, result) ==
    [outcome |-> outcome, error |-> error, steps |-> steps, memory |-> memory,
     result |-> result]

\* ModuleAPI::invoke(argument) of FCEModule and FrankModule: each `?` returns the
\* guest's error; a panic of write_to_mem or read_result_from_mem unwinds.
ModuleAPI_invoke(memory, argument, g) ==
    LET argument_len == Len(argument)
        alloc == needs_allocate(argument_len)
        s1 == IF alloc
              THEN <<Call("allocate", argument_len, -1,
                          IF g.alloc_trap THEN -1 ELSE g.alloc_address, ~g.alloc_trap)>>
              ELSE <<>>
    IN IF alloc /\ g.alloc_trap THEN InvokeEnd("Err", "RuntimeError", s1, memory, <<>>)
       ELSE
       LET argument_address == IF alloc THEN g.alloc_address ELSE 0
           w == IF alloc THEN write_to_mem(memory, argument_address, argument)
                         ELSE [outcome |-> "Ok", memory |-> memory]
           s2 == s1 \o (IF alloc
                        THEN <<Call("write_to_mem", argument_address, argument_len, -1,
                                    w.outcome = "Ok")>>
                        ELSE <<>>)
       IN IF w.outcome # "Ok" THEN InvokeEnd("Panic", "IndexOutOfRange", s2, memory, <<>>)
          ELSE
          LET s3 == s2 \o <<Call("invoke", argument_address, argument_len,
                                 IF g.invoke_trap THEN -1 ELSE g.result_address,
                                 ~g.invoke_trap)>>
          IN IF g.invoke_trap THEN InvokeEnd("Err", "RuntimeError", s3, w.memory, <<>>)
             ELSE
             LET mem2 == GuestWrite(w.memory, g.result_address, g.payload)
                 rd == read_result_from_mem(mem2, g.result_address)
                 s4 == s3 \o <<Call("read_result_from_mem", g.result_address, -1,
                                    rd.result_size, rd.outcome = "Ok")>>
             IN IF rd.outcome # "Ok"
                THEN InvokeEnd("Panic", "IndexOutOfRange", s4, mem2, <<>>)
                ELSE
                LET s5 == s4 \o <<Call("deallocate", g.result_address, Len(rd.result),
                                       -1, ~g.dealloc_trap)>>
                IN IF g.dealloc_trap
                   THEN InvokeEnd("Err", "RuntimeError", s5, mem2, <<>>)
                   ELSE InvokeEnd("Ok", "none", s5, mem2, rd.result)

MaxOps == 2

\* The module can take another operation.
Ready == vm.state = "loaded" /\ vm.ops < MaxOps

\* The module after an operation; a panic ends its use.
AfterOp(memory, r) ==
    [vm EXCEPT !.memory = memory, !.ops = @ + 1, !.last = r,
               !.state = IF r.outcome = "Panic" THEN "panicked" ELSE @]

\* self.<handle>.as_ref().unwrap() (FrankModule) / self.abi.<handle> (FCEModule).
HandlesPresent(fns) == fns \subseteq vm.abi

UnwrapNone(op, argument) ==
    OpResult(op, "Panic", "UnwrapNone", <<>>, argument, <<>>, vm.memory, NoPrint, <<>>)

Invoke ==
    /\ Ready
    /\ \E argument \in ArgumentBytes, g \in GuestBehaviours :
         IF ~HandlesPresent({"allocate", "invoke", "deallocate"})
         THEN vm' = AfterOp(vm.memory, UnwrapNone("invoke", argument))
         ELSE LET e == ModuleAPI_invoke(vm.memory, argument, g)
              IN vm' = AfterOp(e.memory,
                               OpResult("invoke", e.outcome, e.error, e.steps, argument,
                                        e.result, vm.memory, NoPrint, <<>>))

\* The guest's store export: one byte at an address inside memory.
GuestStore(memory, address, value) ==
    [i \in 1..Len(memory) |-> IF i - 1 = address THEN value ELSE memory[i]]

\* A ModuleABI method (allocate, deallocate, invoke, store, load) called directly:
\* FCEModule returns the guest's error, FrankModule's .expect() panics on it.
module_abi_call(impl, fn, trap) ==
    IF ~trap THEN [outcome |-> "Ok", error |-> "none"]
    ELSE IF impl = "FCEModule" THEN [outcome |-> "Err", error |-> "RuntimeError"]
    ELSE [outcome |-> "Panic", error |-> "ExpectFailed"]

AbiCall ==
    /\ Ready
    /\ \E fn \in Range(AbiFnNames), trap \in BOOLEAN, address \in {0, MemBytes - 1} :
         IF ~HandlesPresent({fn})
         THEN vm' = AfterOp(vm.memory, UnwrapNone("abi_call", <<>>))
         ELSE LET c == module_abi_call(vm.impl, fn, trap)
                  memory == IF fn = "store" /\ ~trap
                            THEN GuestStore(vm.memory, address, 255) ELSE vm.memory
              IN vm' = AfterOp(memory,
                               OpResult("abi_call", c.outcome, c.error,
                                        <<Call(fn, address, -1, -1, ~trap)>>, <<>>, <<>>,
                                        vm.memory, NoPrint, <<>>))

\* compute_state_hash: the bytes handed to the hasher,
\* wasm_ptr.deref(memory, 0, memory.size().bytes().0 - 1).
hasher_input(memory) == SubSeq(memory, 1, Len(memory) - 1)

\* sha2::Sha256 of the input: distinct inputs have distinct digests.
Sha256(input) == [sha256 |-> input]

ComputeStateHash ==
    /\ Ready
    /\ vm' = AfterOp(vm.memory,
                     OpResult("compute_state_hash", "Ok", "none", <<>>, <<>>, <<>>,
                              vm.memory, NoPrint, hasher_input(vm.memory)))

\* Valid UTF-8 over the bytes the model uses: 0..127 are one-byte characters and 255
\* occurs in no UTF-8 string.
IsUtf8(bytes) == \A i \in DOMAIN bytes : bytes[i] < 128

\* WasmPtr::<u8, Array>::new(offset as _).get_utf8_string(memory, size as _): the casts
\* to u32 make a negative offset or size larger than any memory.
get_utf8_string(memory, offset, size) ==
    IF offset < 0 \/ size < 0 \/ offset + size > Len(memory)
    THEN [some |-> FALSE, bytes |-> <<>>]
    ELSE LET bytes == SubSeq(memory, offset + 1, offset + size)
         IN IF IsUtf8(bytes) THEN [some |-> TRUE, bytes |-> bytes]
                             ELSE [some |-> FALSE, bytes |-> <<>>]

\* The message printed for None.
FixedMessage(impl) ==
    IF impl = "FCEModule"
    THEN "fce logger: incorrect UTF8 string's been supplied to logger"
    ELSE "frank logger: incorrect UTF8 string's been supplied to logger"

logger_log_utf8_string_FailOnNone(impl, memory, offset, size) ==
    LET s == get_utf8_string(memory, offset, size)
    IN IF s.some THEN [outcome |-> "Ok", printed |-> Printed("string", s.bytes)]
                 ELSE [outcome |-> "Err", printed |-> NoPrint]

\* logger_log_utf8_string(ctx, offset, size)
logger_log_utf8_string(impl, memory, offset, size) ==
    LET s == get_utf8_string(memory, offset, size)
    IN IF s.some THEN [outcome |-> "Ok", printed |-> Printed("string", s.bytes)]
                 ELSE [outcome |-> "Ok", printed |-> Printed(FixedMessage(impl), <<>>)]

LogOffsets == {-1, 0, MemBytes - 2, MemBytes}

LogSizes == {-1, 0, 1, 2, 3}

\* The guest calls the host import logger::log_utf8_string.
LoggerLog ==
    /\ Ready
    /\ \E offset \in LogOffsets, size \in LogSizes :
         LET l == logger_log_utf8_string(vm.impl, vm.memory, offset, size)
         IN vm' = AfterOp(vm.memory,
                          OpResult("log_utf8_string", l.outcome, "none",
                                   <<Call("log_utf8_string", offset, size, -1, TRUE)>>,
                                   <<>>, <<>>, vm.memory, l.printed, <<>>))

\* One module: instantiate a binary, construct, then operate.
InitModule ==
    /\ FaaSIdle
    /\ WitInit
    /\ run = NoRun
    /\ \E impl \in Impls, exports \in WasmExports, memory \in MemoryImages :
         vm = Instantiated(impl, exports, memory)

ModuleNext ==
    \/ ModuleNew /\ UNCHANGED <<faasVars, witVars, run>>
    \/ Invoke /\ UNCHANGED <<faasVars, witVars, run>>
    \/ AbiCall /\ UNCHANGED <<faasVars, witVars, run>>
    \/ ComputeStateHash /\ UNCHANGED <<faasVars, witVars, run>>
    \/ LoggerLog /\ UNCHANGED <<faasVars, witVars, run>>

SpecModule == InitModule /\ [][ModuleNext]_vars

(***************************************************************************)
(* Specifications                                                          *)
(***************************************************************************)

\* FluenceFaaS as built by default: the only mutating entry point is a call.
InitFaaS == FaaSInit /\ WitInit /\ run = NoRun /\ vm = NoVm

FaaSNext == CallWithJson /\ UNCHANGED <<interfaces, functions, run, vm>>

SpecFaaS == InitFaaS /\ [][FaaSNext]_vars

\* FluenceFaaS built with the raw-module-api feature: modules come and go.
FaaSRawNext ==
    \/ CallWithJson /\ UNCHANGED <<interfaces, functions, run, vm>>
    \/ LoadModule /\ UNCHANGED <<interfaces, functions, run, vm>>
    \/ UnloadModule /\ UNCHANGED <<interfaces, functions, run, vm>>

SpecFaaSRaw == InitFaaS /\ [][FaaSRawNext]_vars

\* The generator applied to a growing Interfaces.
InitWit == FaaSIdle /\ WitInit /\ run = NoRun /\ vm = NoVm

WitNext == GenerateWit /\ UNCHANGED <<faasVars, run, vm>>

SpecWit == InitWit /\ [][WitNext]_vars

\* An adapter generated after 0..MaxPrev plain functions, run on sample arguments.
InitRun ==
    /\ FaaSIdle
    /\ vm = NoVm
    /\ \E prev \in 0..MaxPrev, item \in RunItems :
         \E args \in ArgTuples(item.input_types) :
            /\ functions = [k \in 1..prev |-> AstFunctionItem("f", <<>>, <<>>)] \o <<item>>
            /\ interfaces = GenerateAll(functions, EmptyInterfaces)
            /\ run = NewRun(item, interfaces, args)

RunNext == Step /\ UNCHANGED <<faasVars, vm>>

SpecRun == InitRun /\ [][RunNext]_vars

\* The same, for an adapter whose export index (MaxPrev) is past the helper IDs.
InitRunPastHelpers ==
    /\ FaaSIdle
    /\ vm = NoVm
    /\ \E item \in RunItems :
         \E args \in ArgTuples(item.input_types) :
            /\ functions = [k \in 1..MaxPrev |-> AstFunctionItem("f", <<>>, <<>>)] \o <<item>>
            /\ interfaces = GenerateAll(functions, EmptyInterfaces)
            /\ run = NewRun(item, interfaces, args)

SpecRunPastHelpers == InitRunPastHelpers /\ [][RunNext]_vars

(***************************************************************************)
(* Claims about FluenceFaaS                                                *)
(***************************************************************************)

\* C1: the interface cache is keyed by module name. Every key of
\* module_interfaces_cache is the name of a module and the entry under key m is the
\* interface (function signatures, record types) of module m itself; after a
\* successful lookup_module_interface(m, f) the cache has an entry under key m.
C1_CacheKeyedByModuleName ==
    /\ \A k \in DOMAIN module_interfaces_cache :
          /\ k \in DOMAIN fce
          /\ module_interfaces_cache[k] = ModuleInterface(fce[k])
    /\ (last.op = "call_with_json" /\ last.lookup = "Ok")
          => last.module \in DOMAIN module_interfaces_cache

\* C2: the cache is invalidated on unload. Right after unload_module(m) returned Ok
\* the cache holds no interface derived from m, and a call on an unloaded module m is
\* not served from the cache and fails with NoSuchModule.
C2_CacheInvalidatedOnUnload ==
    /\ (last.op = "unload_module" /\ last.result = "Ok")
          => \A k \in DOMAIN cache_origin : cache_origin[k] # last.module
    /\ (last.op = "call_with_json" /\ last.module \in unloaded)
          => (~last.from_cache /\ last.result = "NoSuchModule")

\* C3: for a loaded module m, call_with_json(m, f, ..) fails with MissingFunction
\* exactly when m does not export f, and when m exports f the lookup returns the
\* argument and output types m declares for f.
C3_MissingFunctionIffNotExported ==
    (last.op = "call_with_json" /\ last.module \in DOMAIN fce) =>
        LET sigs == FunctionSignaturesOf(fce[last.module]) IN
        /\ (last.result = "MissingFunction") <=> (last.func \notin DOMAIN sigs)
        /\ last.func \in DOMAIN sigs => (last.lookup = "Ok" /\ last.sig = sigs[last.func])

(***************************************************************************)
(* Claims about the WIT generator                                          *)
(***************************************************************************)

\* The module-ABI table: name -> core signature.
AbiNames == {"allocate", "deallocate", "get_result_ptr", "get_result_size",
             "set_result_ptr", "set_result_size"}

AbiTable(name) ==
    CASE name = "allocate" -> Sig(<<"I32">>, <<"I32">>)
      [] name = "deallocate" -> Sig(<<"I32", "I32">>, <<>>)
      [] name = "get_result_ptr" -> Sig(<<>>, <<"I32">>)
      [] name = "get_result_size" -> Sig(<<>>, <<"I32">>)
      [] name = "set_result_ptr" -> Sig(<<"I32">>, <<>>)
      [] name = "set_result_size" -> Sig(<<"I32">>, <<>>)

\* C4: the six helper descriptors have pairwise distinct IDs that are exactly 0..5,
\* and each descriptor's argument and output types are those of the ABI table; so
\* every helper ID a generated adapter calls names exactly one descriptor.
C4_AbiDescriptors ==
    LET ds == ApiExportFuncDescriptors IN
    /\ \A i, j \in DOMAIN ds : i # j => ds[i].id # ds[j].id
    /\ {ds[i].id : i \in DOMAIN ds} = 0..5
    /\ {ds[i].name : i \in DOMAIN ds} = AbiNames
    /\ \A i \in DOMAIN ds :
          /\ [k \in DOMAIN ds[i].arguments |-> ds[i].arguments[k].ty]
                = AbiTable(ds[i].name).arguments
          /\ ds[i].output_types = AbiTable(ds[i].name).outputs
    /\ \A k \in DOMAIN functions :
          \A ins \in Range(interfaces.adapters[k].instructions) :
              (ins.op = "CallCore" /\ ins.function_index \in 0..5) =>
                  Cardinality({i \in DOMAIN ds : ds[i].id = ins.function_index}) = 1

\* C4 witness: a generated adapter uses the allocate descriptor in a prologue and the
\* get_result_ptr, get_result_size and deallocate descriptors in its epilogue.
C4_Witness ==
    \E k \in DOMAIN functions :
        /\ functions[k].input_types = <<"Utf8String">>
        /\ functions[k].output_type = <<"ByteVector">>
        /\ {CallCore(ALLOCATE_FUNC.id), CallCore(GET_RESULT_PTR_FUNC.id),
            CallCore(GET_RESULT_SIZE_FUNC.id), CallCore(DEALLOCATE_FUNC.id)}
              \subseteq Range(interfaces.adapters[k].instructions)

\* The adapter program of the k-th generated function and the index of its export.
ProgramOf(k) == interfaces.adapters[k].instructions
ExportIndexOf(k) == k - 1

\* C5: the program is the per-argument prologues in argument order (every
\* ArgumentGet of the prologue of argument i carrying i), then one CallCore whose index
\* is the function's own export, then the epilogue of the output type; no other
\* CallCore of the program has the export's index.
C5_SingleExportCall ==
    \A k \in DOMAIN functions :
        LET item == functions[k]
            pro == input_instructions(item.input_types)
            epi == output_instructions(item.output_type)
            P == ProgramOf(k)
        IN /\ P = pro \o <<CallCore(ExportIndexOf(k))>> \o epi
           /\ \A i \in 1..Len(item.input_types) :
                \A ins \in Range(generate_instructions_for_input_type(item.input_types[i], i - 1)) :
                    ins.op = "ArgumentGet" => ins.index = i - 1
           /\ Cardinality({n \in DOMAIN P : P[n] = CallCore(ExportIndexOf(k))}) = 1

PrimitiveTypes == ParsedTypes \ StringLikeTypes

IntegerWidthConversions ==
    {"I32FromS8", "I32FromS16", "I32FromU8", "I32FromU16", "I32FromU32", "I64FromU64"}

\* The conversion the prologue of an integer narrower or differently signed than its
\* core type ends with.
InputConversionOf(pty) ==
    CASE pty = "I8" -> "I32FromS8"
      [] pty = "I16" -> "I32FromS16"
      [] pty = "U8" -> "I32FromU8"
      [] pty = "U16" -> "I32FromU16"
      [] pty = "U32" -> "I32FromU32"
      [] pty = "U64" -> "I64FromU64"

ConvertedTypes == {"I8", "I16", "U8", "U16", "U32", "U64"}

\* Prologue lengths if every primitive had ArgumentGet and a conversion.
ClaimedLen(pty) == IF pty \in StringLikeTypes THEN 5 ELSE 2

\* Prologue lengths as they are.
PrologueLen(pty) == IF pty \in StringLikeTypes THEN 5 ELSE IF pty \in ConvertedTypes THEN 2 ELSE 1

\* Where the prologue of argument i starts, by the claimed lengths.
RECURSIVE ClaimedOffset(_, _)
ClaimedOffset(input_types, i) ==
    IF i = 1 THEN 0
    ELSE ClaimedOffset(input_types, i - 1) + ClaimedLen(input_types[i - 1])

\* Where the prologue of argument i starts.
RECURSIVE PrologueOffset(_, _)
PrologueOffset(input_types, i) ==
    IF i = 1 THEN 0
    ELSE PrologueOffset(input_types, i - 1) + PrologueLen(input_types[i - 1])

\* C6 as stated: for every primitive argument type at position i the prologue is
\* ArgumentGet(i) followed by an integer-width conversion instruction.
C6_PrimitivePrologueConverts ==
    \A k \in DOMAIN functions :
        LET tys == functions[k].input_types
            P == ProgramOf(k)
        IN \A i \in 1..Len(tys) :
              tys[i] \in PrimitiveTypes =>
                 LET off == ClaimedOffset(tys, i) IN
                 /\ Len(P) >= off + 2
                 /\ P[off + 1] = ArgumentGet(i - 1)
                 /\ P[off + 2].op \in IntegerWidthConversions

\* C6 amended: for I8, I16, U8, U16, U32 and U64 at position i the prologue is
\* ArgumentGet(i) followed by the conversion to the core type (I32FromS8, I32FromS16,
\* I32FromU8, I32FromU16, I32FromU32, I64FromU64); for I32, I64, F32 and F64 it is
\* ArgumentGet(i) alone.
C6_PrimitivePrologue ==
    \A k \in DOMAIN functions :
        LET tys == functions[k].input_types
            P == ProgramOf(k)
        IN \A i \in 1..Len(tys) :
              tys[i] \in PrimitiveTypes =>
                 LET off == PrologueOffset(tys, i)
                     seg == SubSeq(P, off + 1, off + PrologueLen(tys[i]))
                 IN /\ Len(P) > off + PrologueLen(tys[i])
                    /\ seg = IF tys[i] \in ConvertedTypes
                             THEN <<ArgumentGet(i - 1), Instruction(InputConversionOf(tys[i]))>>
                             ELSE <<ArgumentGet(i - 1)>>
                    /\ P[off + PrologueLen(tys[i]) + 1].op \in {"ArgumentGet", "CallCore"}

\* C6 witness: a function with a converted argument at position 0 and an unconverted
\* one at position 1 has been generated.
C6_Witness ==
    \E k \in DOMAIN functions :
        /\ functions[k].input_types = <<"U16", "F64">>
        /\ Len(ProgramOf(k)) >= 4

LowerOpOf(pty) == IF pty = "Utf8String" THEN "StringLowerMemory" ELSE "ByteArrayLowerMemory"
SizeOpOf(pty) == IF pty = "Utf8String" THEN "StringSize" ELSE "ByteArraySize"
LiftOpOf(pty) == IF pty = "Utf8String" THEN "StringLiftMemory" ELSE "ByteArrayLiftMemory"

\* The trace positions of the events of kind op logged by instructions lo..hi.
EventsIn(op, lo, hi) ==
    {e \in DOMAIN run.trace : run.trace[e].op = op /\ run.trace[e].pc \in lo..hi}

\* C7: the prologue of a string (byte-array) argument at position i is ArgumentGet(i);
\* StringSize (ByteArraySize); CallCore(allocate); ArgumentGet(i); StringLowerMemory
\* (ByteArrayLowerMemory). Once it has run, allocate was called exactly once in it, with
\* the argument's byte length and before the one lowering copy; the copy targets the
\* pointer allocate returned; and right after it (ptr, byte_len) is on top of the stack.
C7_StringPrologue ==
    run.active =>
        LET tys == run.item.input_types IN
        \A i \in 1..Len(tys) :
            tys[i] \in StringLikeTypes =>
                LET off == PrologueOffset(tys, i)
                    allocs == EventsIn("allocate", off + 1, off + 5)
                    lowers == EventsIn("lower", off + 1, off + 5)
                IN /\ SubSeq(run.program, off + 1, off + 5) =
                        <<ArgumentGet(i - 1), Instruction(SizeOpOf(tys[i])),
                          CallCore(ALLOCATE_FUNC.id), ArgumentGet(i - 1),
                          Instruction(LowerOpOf(tys[i]))>>
                   /\ run.pc <= off + 5 => lowers = {}
                   /\ run.pc > off + 5 =>
                        /\ Cardinality(allocs) = 1
                        /\ Cardinality(lowers) = 1
                        /\ \A a \in allocs, l \in lowers :
                              /\ a < l
                              /\ run.trace[a].a = run.args[i].v
                              /\ run.trace[l].a = run.trace[a].ret
                              /\ run.trace[l].b = run.args[i].v
                              /\ run.pc = off + 6 =>
                                    /\ Len(run.stack) >= 2
                                    /\ Top(run.stack, 1) = Val("I32", run.trace[a].ret)
                                    /\ Top(run.stack, 0) = Val("I32", run.args[i].v)

\* C7 witness: the prologue of a non-empty string at position 1 has just run.
C7_Witness ==
    /\ run.active
    /\ Len(run.item.input_types) = 2
    /\ run.item.input_types[2] = "Utf8String"
    /\ run.args[2].v = 2
    /\ run.pc = PrologueOffset(run.item.input_types, 2) + 6
    /\ EventsIn("lower", 1, run.pc) # {}

\* C8: the epilogue of a string or byte-array output is get_result_ptr;
\* get_result_size; Lift; get_result_ptr; get_result_size; deallocate. In every run the
\* epilogue's deallocate comes after its lift and is called with the (ptr, size) the
\* lift read, and a run that finishes has called it.
C8_StringEpilogue ==
    (run.active /\ run.item.output_type # <<>> /\ run.item.output_type[1] \in StringLikeTypes) =>
        LET n == Len(run.program)
            deallocs == EventsIn("deallocate", n, n)
            lifts == EventsIn("lift", n - 3, n - 3)
        IN /\ n >= 7
           /\ SubSeq(run.program, n - 5, n) =
                <<CallCore(GET_RESULT_PTR_FUNC.id), CallCore(GET_RESULT_SIZE_FUNC.id),
                  Instruction(LiftOpOf(run.item.output_type[1])),
                  CallCore(GET_RESULT_PTR_FUNC.id), CallCore(GET_RESULT_SIZE_FUNC.id),
                  CallCore(DEALLOCATE_FUNC.id)>>
           /\ \A d \in deallocs :
                \E l \in lifts :
                    /\ l < d
                    /\ run.trace[l].a = run.trace[d].a
                    /\ run.trace[l].b = run.trace[d].b
           /\ \A l \in EventsIn("lift", 1, n) : \A d \in EventsIn("deallocate", n - 5, n) : l < d
           /\ Finished(run) => Cardinality(deallocs) = 1 /\ Cardinality(lifts) = 1

\* C8 witness: a run with a string output has finished, having lifted and released a
\* non-empty result.
C8_Witness ==
    /\ Finished(run)
    /\ run.item.output_type = <<"Utf8String">>
    /\ run.result_size = 2
    /\ run.export_index = 6
    /\ EventsIn("deallocate", Len(run.program), Len(run.program)) # {}

\* C9: no generated program, run on well-typed arguments, raises AdapterStackUnderflow
\* or AdapterTypeMismatch, and a run that finishes leaves exactly len(outputs) values.
C9_NoAdapterError ==
    run.active =>
        /\ run.error \notin {"AdapterStackUnderflow", "AdapterTypeMismatch"}
        /\ Finished(run) => Len(run.stack) = Len(run.item.output_type)

(***************************************************************************)
(* Claims about invocations: adapter runs and ModuleAPI::invoke            *)
(***************************************************************************)

\* Adapter runs and module operations side by side.
InitInvocations == InitRun \/ InitModule

InvocationsNext ==
    \/ Step /\ UNCHANGED <<faasVars, vm>>
    \/ ModuleNext

SpecInvocations == InitInvocations /\ [][InvocationsNext]_vars

\* The adapter run returned successfully: it ran to its end, called the export, and
\* left exactly len(outputs) values.
RunSucceeded ==
    /\ run.active
    /\ Finished(run)
    /\ EventsIn("export", 1, Len(run.program)) # {}
    /\ Len(run.stack) = Len(run.item.output_type)

\* ModuleAPI::invoke returned Ok.
InvokeSucceeded == vm.state # "none" /\ vm.last.op = "invoke" /\ vm.last.outcome = "Ok"

\* The steps of the last module operation that are calls of fn.
StepsOf(fn) == {i \in DOMAIN vm.last.steps : vm.last.steps[i].fn = fn}

StringLikeArgs(item) == {i \in DOMAIN item.input_types : item.input_types[i] \in StringLikeTypes}

\* C11 as stated: in every invocation that returns successfully the number of allocate
\* calls equals the number of deallocate calls, and the (ptr, size) pairs of the
\* deallocate calls are those of the allocations.
C11_AllocationBalance ==
    /\ RunSucceeded =>
          LET allocs == EventsIn("allocate", 1, Len(run.program))
              deallocs == EventsIn("deallocate", 1, Len(run.program))
          IN /\ Cardinality(allocs) = Cardinality(deallocs)
             /\ \A d \in deallocs : \E a \in allocs :
                    run.trace[a].ret = run.trace[d].a /\ run.trace[a].a = run.trace[d].b
    /\ InvokeSucceeded =>
          /\ Cardinality(StepsOf("allocate")) = Cardinality(StepsOf("deallocate"))
          /\ \A d \in StepsOf("deallocate") : \E a \in StepsOf("allocate") :
                 /\ vm.last.steps[a].ret = vm.last.steps[d].a
                 /\ vm.last.steps[a].a = vm.last.steps[d].b

\* The instructions of the run's program before and after its export call.
PrologueEnd(item) == PrologueOffset(item.input_types, Len(item.input_types) + 1)

\* C11 amended: the engine allocates argument buffers and deallocates result buffers,
\* so the two counts differ in general. A generated adapter has one CallCore(allocate)
\* per string or byte-array argument, all before the export call, and one
\* CallCore(deallocate) after it if and only if the output is a string or byte array.
\* ModuleAPI::invoke returning Ok has called allocate once if and only if the argument
\* is not empty (with its byte length) and deallocate exactly once, with the address
\* the guest's invoke returned and the length of the result read.
C11_AllocationOwnership ==
    /\ run.active =>
          LET P == PrologueEnd(run.item)
              n == Len(run.program)
              out == run.item.output_type
              allocs == {k \in 1..P : run.program[k] = CallCore(ALLOCATE_FUNC.id)}
              deallocs == {k \in (P + 2)..n : run.program[k] = CallCore(DEALLOCATE_FUNC.id)}
          IN /\ n >= P + 1
             /\ run.program[P + 1] = CallCore(run.export_index)
             /\ Cardinality(allocs) = Cardinality(StringLikeArgs(run.item))
             /\ Cardinality(deallocs) =
                    IF out # <<>> /\ out[1] \in StringLikeTypes THEN 1 ELSE 0
             /\ \A k \in (P + 2)..n : run.program[k] # CallCore(ALLOCATE_FUNC.id)
    /\ InvokeSucceeded =>
          LET allocs == StepsOf("allocate")
              deallocs == StepsOf("deallocate")
              invokes == StepsOf("invoke")
          IN /\ Cardinality(allocs) = IF vm.last.argument # <<>> THEN 1 ELSE 0
             /\ \A a \in allocs : vm.last.steps[a].a = Len(vm.last.argument)
             /\ Cardinality(deallocs) = 1
             /\ Cardinality(invokes) = 1
             /\ \A d \in deallocs : \A i \in invokes :
                    /\ vm.last.steps[d].a = vm.last.steps[i].ret
                    /\ vm.last.steps[d].b = Len(vm.last.result)

\* C11 witness: ModuleAPI::invoke returned Ok on an empty argument with a result of
\* two bytes, deallocated without any allocate call.
C11_Witness ==
    /\ InvokeSucceeded
    /\ vm.last.argument = <<>>
    /\ Len(vm.last.result) = 2
    /\ StepsOf("deallocate") # {}
    /\ StepsOf("allocate") = {}

(***************************************************************************)
(* Claims about primitive round trips                                      *)
(***************************************************************************)

\* The integer ParsedTypes.
RoundTripTypes == {"I8", "I16", "I32", "I64", "U8", "U16", "U32", "U64"}

\* The core type an integer ParsedType travels as.
CoreTypeOf(pty) == CoreInputsOf(pty)[1]

\* Values of a type's range: its ends, their neighbours, the values around zero and,
\* for an unsigned type, the values around the signed maximum of its core type.
RoundTripValues(pty) ==
    LET ty == ptype_to_itype(pty)
        lo == MinOf(ty)
        hi == MaxOf(ty)
        core_hi == MaxOf(CoreTypeOf(pty))
    IN {v \in {lo, lo + 1, -1, 0, 1, 2, core_hi - 1, core_hi, core_hi + 1, hi - 1, hi} :
           lo <= v /\ v <= hi}

\* The adapter of an identity export T -> T, generated past the helper IDs and run on
\* a value of T.
InitRoundTrip ==
    /\ FaaSIdle
    /\ vm = NoVm
    /\ \E pty \in RoundTripTypes :
         \E v \in RoundTripValues(pty) :
            LET item == AstFunctionItem("f", <<pty>>, <<pty>>)
            IN /\ functions = [k \in 1..MaxPrev |-> AstFunctionItem("f", <<>>, <<>>)] \o <<item>>
               /\ interfaces = GenerateAll(functions, EmptyInterfaces)
               /\ run = NewIdentityRun(item, interfaces, <<Val(ptype_to_itype(pty), v)>>)

SpecRoundTrip == InitRoundTrip /\ [][RunNext]_vars

\* C12: for every integer type T and every value v of T's range, the run of the
\* adapter of an identity export T -> T never fails and ends with v, of type T, alone
\* on the stack.
C12_RoundTripPrimitives ==
    (run.active /\ run.guest = "identity") =>
        /\ run.error = "none"
        /\ Finished(run) => run.stack = <<run.args[1]>>

(***************************************************************************)
(* Claims about the module API                                             *)
(***************************************************************************)

\* An operation of the module has ended (normally or by a panic).
Operated(op) == vm.state \in {"loaded", "panicked"} /\ vm.last.op = op

\* The memory accesses of the last operation that reached outside the memory.
OutOfBoundsSteps ==
    {k \in DOMAIN vm.last.steps :
        /\ vm.last.steps[k].fn \in {"write_to_mem", "read_result_from_mem"}
        /\ ~vm.last.steps[k].ok}

\* C13: when write_to_mem or read_result_from_mem would touch a byte at or beyond
\* the memory size, ModuleAPI::invoke gets an error value, MemoryAccessOutOfBounds,
\* and returns it (no panic); a refused write leaves the memory unchanged.
C13_MemoryAccessBoundsChecked ==
    (Operated("invoke") /\ OutOfBoundsSteps # {}) =>
        /\ vm.last.outcome = "Err"
        /\ vm.last.error = "MemoryAccessOutOfBounds"
        /\ \A k \in OutOfBoundsSteps :
              vm.last.steps[k].fn = "write_to_mem" => vm.memory = vm.last.mem_before

\* The bytes log_utf8_string(offset, size) addresses lie inside the memory.
LogInRange(memory, offset, size) ==
    offset >= 0 /\ size >= 0 /\ offset + size <= Len(memory)

\* C14: logger::log_utf8_string(offset, size) returns normally for every (offset, size)
\* and leaves the module usable; it prints the addressed bytes when they are in range
\* and valid UTF-8, and the implementation's one fixed message otherwise; the memory
\* is the same before and after.
C14_LoggerNeverFails ==
    Operated("log_utf8_string") =>
        LET offset == vm.last.steps[1].a
            size == vm.last.steps[1].b
            memory == vm.last.mem_before
        IN /\ vm.last.outcome = "Ok"
           /\ vm.state = "loaded"
           /\ vm.memory = memory
           /\ IF LogInRange(memory, offset, size)
                 /\ IsUtf8(SubSeq(memory, offset + 1, offset + size))
              THEN vm.last.printed =
                      Printed("string", SubSeq(memory, offset + 1, offset + size))
              ELSE vm.last.printed = Printed(FixedMessage(vm.impl), <<>>)

\* C14 witness: the logger was called on bytes in range that are no UTF-8 and printed
\* the fixed message.
C14_Witness ==
    /\ Operated("log_utf8_string")
    /\ LogInRange(vm.last.mem_before, vm.last.steps[1].a, vm.last.steps[1].b)
    /\ vm.last.steps[1].b > 0
    /\ vm.last.printed = Printed(FixedMessage(vm.impl), <<>>)
    /\ vm.last.outcome = "Ok"

\* C15: compute_state_hash hands the hasher the whole memory, the bytes at offsets
\* 0 .. memory_size - 1, so that memories differing in any byte have different inputs.
C15_HashCoversFullMemory ==
    Operated("compute_state_hash") =>
        /\ Len(vm.last.hashed) = Len(vm.last.mem_before)
        /\ vm.last.hashed = vm.last.mem_before

\* The ABI exports of the instance that are absent or of the wrong signature.
BadExports == {n \in Range(AbiFnNames) : vm.exports[n] # "ok"}

\* C16: the constructor fails, and yields no module, exactly when one of the five ABI
\* exports is absent or has the wrong signature; a module it returned holds all five
\* handles, every later operation leaves them in place, and no operation ever finds a
\* handle missing.
C16_AbiHandlesAllOrNothing ==
    /\ vm.state = "failed" =>
          /\ BadExports # {}
          /\ vm.abi = {}
          /\ vm.error # "none"
          /\ vm.error_name \in BadExports
          /\ vm.ops = 0
    /\ vm.state \in {"loaded", "panicked"} =>
          /\ BadExports = {}
          /\ vm.abi = Range(AbiFnNames)
          /\ vm.error = "none"
          /\ vm.last.error # "UnwrapNone"

\* C16 witness: a binary whose only defect is a load export of the wrong signature
\* was refused by FCEModule::new.
C16_Witness ==
    /\ vm.state = "failed"
    /\ BadExports = {"load"}
    /\ vm.exports["load"] = "wrong_signature"
    /\ vm.impl = "FCEModule"
    /\ vm.abi = {}

\* The steps ModuleAPI::invoke makes for an argument, in order.
InvokePlan(argument) ==
    IF argument # <<>>
    THEN <<"allocate", "write_to_mem", "invoke", "read_result_from_mem", "deallocate">>
    ELSE <<"invoke", "read_result_from_mem", "deallocate">>

\* The steps of the last invoke are a prefix of the plan, each made once, every step
\* but the last succeeded, and the invoke ended Ok exactly when the whole plan ran
\* and its last step succeeded; the guest's invoke got (address, len) of the argument,
\* (0, 0) for an empty one.
InvokeStepOrder ==
    LET steps == vm.last.steps
        plan == InvokePlan(vm.last.argument)
        n == Len(steps)
    IN /\ n >= 1 /\ n <= Len(plan)
       /\ \A k \in 1..n : steps[k].fn = plan[k]
       /\ \A k \in 1..(n - 1) : steps[k].ok
       /\ (vm.last.outcome = "Ok") = (n = Len(plan) /\ steps[n].ok)
       /\ n < Len(plan) => ~steps[n].ok
       /\ \A k \in 1..n : steps[k].fn = "invoke" =>
             /\ steps[k].b = Len(vm.last.argument)
             /\ steps[k].a = IF vm.last.argument = <<>> THEN 0 ELSE steps[1].ret
       /\ \A k \in 1..n : steps[k].fn = "allocate" => steps[k].a = Len(vm.last.argument)
       /\ \A k \in 1..n : steps[k].fn = "write_to_mem" => steps[k].a = steps[1].ret

\* C17: ModuleAPI::invoke makes its steps in the fixed order, each at most once,
\* skipping allocate and the write for an empty argument (the guest is then invoked
\* with (0, 0)); the first failing step ends the invoke, which returns that step's
\* error to the caller.
C17_InvokeStepsInOrder ==
    Operated("invoke") =>
        /\ InvokeStepOrder
        /\ vm.last.outcome \in {"Ok", "Err"}
        /\ vm.state = "loaded"

\* The unsigned little-endian 32-bit integer of four bytes: the byte at the lowest
\* address has weight 1. Values from 2^31 on are represented by 2^31 - 1.
LittleEndian32(b) ==
    IF b[4] >= 128 THEN 2147483647
    ELSE b[1] * 1 + b[2] * 256 + b[3] * 65536 + b[4] * 16777216

\* C18: read_result_from_mem(address) decodes the length n as the little-endian
\* 32-bit integer at address .. address+3 and, when the n bytes after it lie in the
\* memory, returns exactly the bytes at address+4 .. address+4+n-1 in order;
\* ModuleAPI::invoke reads at the address the guest's invoke returned and then calls
\* deallocate with that address and n.
C18_ResultDecoding ==
    Operated("invoke") =>
        \A k \in DOMAIN vm.last.steps :
            LET rd == vm.last.steps[k]
                address == rd.a
                memory == vm.memory
            IN (rd.fn = "read_result_from_mem" /\ address >= 0
                    /\ address + 4 <= Len(memory)) =>
                  LET n == LittleEndian32(SubSeq(memory, address + 1, address + 4))
                  IN /\ rd.ret = n
                     /\ address = vm.last.steps[k - 1].ret
                     /\ rd.ok = (n <= Len(memory) - address - 4)
                     /\ rd.ok =>
                           /\ k + 1 \in DOMAIN vm.last.steps
                           /\ vm.last.steps[k + 1].fn = "deallocate"
                           /\ vm.last.steps[k + 1].a = address
                           /\ vm.last.steps[k + 1].b = n
                     /\ vm.last.outcome = "Ok" =>
                           vm.last.result = SubSeq(memory, address + 5, address + 4 + n)

\* C18 witness: an invoke returned the two bytes that follow the prefix 02 00 00 00
\* and deallocated them.
C18_Witness ==
    /\ Operated("invoke")
    /\ vm.last.outcome = "Ok"
    /\ vm.last.result = <<7, 255>>
    /\ \E k \in DOMAIN vm.last.steps :
          /\ vm.last.steps[k].fn = "deallocate"
          /\ vm.last.steps[k].a > 0
          /\ vm.last.steps[k].b = 2

(***************************************************************************)
(* Claims about the order of call_with_json                                *)
(***************************************************************************)

\* The last call_with_json ended before the module call: its lookup failed, or its
\* JSON arguments did not fit the signature found.
FailedBeforeCall(l) ==
    /\ l.op = "call_with_json"
    /\ \/ l.lookup \in {"NoSuchModule", "MissingFunction"}
       \/ l.lookup = "Ok" /\ l.result = "JsonSchemaMismatch" /\ ~l.called

\* C19: a call_with_json whose signature lookup fails (NoSuchModule, MissingFunction)
\* or whose JSON arguments do not fit the signature (JsonSchemaMismatch) returns that
\* error, does not call the module function, and leaves the shared call_parameters
\* as the previous call set them.
C19_FailedCallKeepsCallParameters ==
    [][FailedBeforeCall(last') =>
          /\ call_parameters' = call_parameters
          /\ ~last'.called
          /\ last'.result \in {"NoSuchModule", "MissingFunction", "JsonSchemaMismatch"}
          /\ fce' = fce]_vars

\* C19 witness: a call whose JSON arguments do not fit has returned JsonSchemaMismatch
\* while call_parameters hold the value an earlier call has set.
C19_Witness ==
    /\ FailedBeforeCall(last)
    /\ last.lookup = "Ok"
    /\ last.result = "JsonSchemaMismatch"
    /\ call_parameters = "cp1"

(***************************************************************************)
(* Claims about the CallCore index space                                   *)
(***************************************************************************)

\* The CallCore instruction generate_wit pushed for the k-th function's own export.
ExportCallOf(k) == ProgramOf(k)[PrologueEnd(functions[k]) + 1]

\* C20: in every generated adapter the function_index of the call to the function's
\* own export is none of the ABI helper descriptor IDs 0..5, however many functions
\* were generated before it.
C20_ExportIndexDisjointFromHelperIds ==
    \A k \in 1..Len(functions) :
        /\ ExportCallOf(k).op = "CallCore"
        /\ ExportCallOf(k).function_index \notin HelperIds

====
